---- MODULE Spec2Model ----
(***************************************************************************)
(* Pixora backend: the upload controller, the Gemini controller, the       *)
(* image generation service (model gateway), the MongoDB helper layer, and *)
(* the start and shutdown of the process (index.js).                       *)
(*                                                                         *)
(* Text that the code inspects or builds (error messages, image data) is a *)
(* sequence of symbols; short request fields (promptId, promptName,        *)
(* prompt, id) are strings.                                                *)
(***************************************************************************)
EXTENDS Integers, Sequences, FiniteSets, TLC

\* ------------------------------------------------------------------ bounds
MaxReq == 3        \* requests handled in one run
MaxMsgLen == 4     \* symbols in a provider error message
MaxScan == 3       \* records in the images collection scanned by getPrompts
MaxOps == 3        \* direct calls of the store helpers in one run

\* ------------------------------------------------------- JavaScript values
Undefined == "undefined"
Null == "null"

\* !v for a string-valued field: undefined, null and '' are falsy
Falsy(v) == v \in {Undefined, Null, ""}

\* a || b
Or(a, b) == IF Falsy(a) THEN b ELSE a

\* image data (base64 text) is a sequence of characters; absent and '' are
\* both the empty sequence, and both are falsy
NoImage == <<>>

\* String.prototype.includes
Includes(s, p) == \E i \in 0..(Len(s) - Len(p)) : SubSeq(s, i + 1, i + Len(p)) = p

\* ------------------------------------------------- Buffer.toString('base64')
B64Alphabet ==
  << "A","B","C","D","E","F","G","H","I","J","K","L","M","N","O","P",
     "Q","R","S","T","U","V","W","X","Y","Z","a","b","c","d","e","f",
     "g","h","i","j","k","l","m","n","o","p","q","r","s","t","u","v",
     "w","x","y","z","0","1","2","3","4","5","6","7","8","9","+","/" >>

B64Char(n) == B64Alphabet[n + 1]

RECURSIVE Base64(_)
Base64(bytes) ==
  IF Len(bytes) = 0 THEN <<>>
  ELSE IF Len(bytes) = 1 THEN
    << B64Char(bytes[1] \div 4), B64Char((bytes[1] % 4) * 16), "=", "=" >>
  ELSE IF Len(bytes) = 2 THEN
    << B64Char(bytes[1] \div 4),
       B64Char((bytes[1] % 4) * 16 + bytes[2] \div 16),
       B64Char((bytes[2] % 16) * 4), "=" >>
  ELSE
    << B64Char(bytes[1] \div 4),
       B64Char((bytes[1] % 4) * 16 + bytes[2] \div 16),
       B64Char((bytes[2] % 16) * 4 + bytes[3] \div 64),
       B64Char(bytes[3] % 64) >> \o Base64(SubSeq(bytes, 4, Len(bytes)))

\* ----------------------------------------------------- the model gateway
P429 == << "4", "2", "9" >>
PQuota == << "quota" >>
P404 == << "4", "0", "4" >>
PNotFound == << "not found" >>

\* the alphabet provider error messages are drawn from: the digits of the
\* two status codes one by one, the two words whole, and any other text
Sigma == { "4", "2", "9", "0", "quota", "not found", "x" }

RECURSIVE SeqsUpTo(_, _)
SeqsUpTo(S, n) ==
  IF n = 0 THEN { <<>> }
  ELSE LET shorter == SeqsUpTo(S, n - 1)
       IN  shorter \cup { Append(s, x) : s \in shorter, x \in S }

\* 'GEMINI_API_KEY is not set in environment variables'
KeyMissingMessage == << "GEMINI_API_KEY is not set in environment variables" >>

QuotaSuggestion == "Please set up billing in Google AI Studio or wait for quota reset."
ModelSuggestion == "Please check available models or contact support."

\* the catch block of generateImage / generateImageFromText: message is
\* error.message, failedPrefix the text of the last branch
ClassifyAsModelFirst(message, failedPrefix) ==
  IF Includes(message, P404) \/ Includes(message, PNotFound) THEN
    [ success |-> FALSE,
      error |-> << "Model not found: " >> \o message,
      errorType |-> "MODEL_NOT_FOUND", suggestion |-> ModelSuggestion ]
  ELSE IF Includes(message, P429) \/ Includes(message, PQuota) THEN
    [ success |-> FALSE,
      error |-> << "Quota exceeded: " >> \o message
                  \o << ". Please check your billing and quota limits." >>,
      errorType |-> "QUOTA_EXCEEDED", suggestion |-> QuotaSuggestion ]
  ELSE
    [ success |-> FALSE,
      error |-> << failedPrefix >> \o message,
      errorType |-> "UNKNOWN_ERROR", suggestion |-> Undefined ]

ClassifyError(message, failedPrefix) ==
  IF Includes(message, P429) \/ Includes(message, PQuota) THEN
    [ success |-> FALSE,
      error |-> << "Quota exceeded: " >> \o message
                  \o << ". Please check your billing and quota limits." >>,
      errorType |-> "QUOTA_EXCEEDED", suggestion |-> QuotaSuggestion ]
  ELSE IF Includes(message, P404) \/ Includes(message, PNotFound) THEN
    [ success |-> FALSE,
      error |-> << "Model not found: " >> \o message,
      errorType |-> "MODEL_NOT_FOUND", suggestion |-> ModelSuggestion ]
  ELSE
    [ success |-> FALSE,
      error |-> << failedPrefix >> \o message,
      errorType |-> "UNKNOWN_ERROR", suggestion |-> Undefined ]

\* getBestAvailableModel: accepts is the set of identifiers for which the
\* SDK's getGenerativeModel returns a handle instead of throwing
ModelPriority(task) ==
  IF task = "image"
  THEN << "gemini-2.0-flash-preview-image-generation", "gemini-1.5-flash",
          "gemini-1.5-pro", "gemini-pro" >>
  ELSE << "gemini-1.5-flash", "gemini-1.5-pro", "gemini-pro" >>

ModelNames == { ModelPriority("image")[i] : i \in 1..4 }

\* modelPriority[task] || modelPriority.text for a task that names a member
\* every object literal inherits: the member is truthy, and for...of over it
\* throws a TypeError
Inherited == { "constructor", "toString", "valueOf", "hasOwnProperty", "__proto__" }

NotIterable(task) == task \in Inherited

RECURSIVE FirstAccepted(_, _)
FirstAccepted(models, accepts) ==
  IF models = <<>> THEN "gemini-pro"
  ELSE IF Head(models) \in accepts THEN Head(models)
  ELSE FirstAccepted(Tail(models), accepts)

getBestAvailableModel(task, accepts) == FirstAccepted(ModelPriority(task), accepts)

\* What the provider does for one gateway call: the identifiers its SDK
\* accepts, the message of the construction error, whether generateContent
\* succeeds, whether listModels succeeds, and the message of its error.
Provider(accepts, constructMessage, listOk, ok, message) ==
  [ accepts |-> accepts, constructMessage |-> constructMessage,
    listOk |-> listOk, ok |-> ok, message |-> message ]

NoResult ==
  [ success |-> FALSE, error |-> <<>>, errorType |-> Undefined,
    suggestion |-> Undefined, data |-> NoImage ]

Success(data) ==
  [ success |-> TRUE, error |-> <<>>, errorType |-> Undefined,
    suggestion |-> Undefined, data |-> data ]

\* a failure that keeps the kind and drops the provider's message
FailureWithoutMessage(message, failedPrefix) ==
  [ NoResult EXCEPT !.error = << failedPrefix >>,
                    !.errorType = ClassifyError(message, failedPrefix).errorType,
                    !.suggestion = ClassifyError(message, failedPrefix).suggestion ]

Failure(message, failedPrefix) ==
  [ f \in DOMAIN NoResult |->
      IF f \in DOMAIN ClassifyError(message, failedPrefix)
      THEN ClassifyError(message, failedPrefix)[f] ELSE NoResult[f] ]

\* a gateway call that reaches the provider although the credential is
\* missing
ServiceCallWithoutKeyCheck(key, prov, task, failedPrefix, data) ==
  LET modelName == getBestAvailableModel(task, prov.accepts) IN
  IF modelName \notin prov.accepts THEN
    [ result |-> Failure(prov.constructMessage, failedPrefix), providerCalls |-> 0 ]
  ELSE IF prov.ok /\ key THEN
    [ result |-> Success(data), providerCalls |-> 1 ]
  ELSE
    [ result |-> Failure(prov.message, failedPrefix), providerCalls |-> 1 ]

\* the common body of generateImage and generateImageFromText of the
\* service: credential check, model selection, handle construction,
\* generateContent, and the catch block
ServiceCall(key, prov, task, failedPrefix, data) ==
  IF ~key THEN
    [ result |-> Failure(KeyMissingMessage, failedPrefix), providerCalls |-> 0 ]
  ELSE
    LET modelName == getBestAvailableModel(task, prov.accepts) IN
    IF modelName \notin prov.accepts THEN
      [ result |-> Failure(prov.constructMessage, failedPrefix), providerCalls |-> 0 ]
    ELSE IF prov.ok THEN
      [ result |-> Success(data), providerCalls |-> 1 ]
    ELSE
      [ result |-> Failure(prov.message, failedPrefix), providerCalls |-> 1 ]

\* a gateway that repeats a failed provider call once
ServiceGenerateImageRetrying(key, prov, referenceImageBase64) ==
  LET call == ServiceCall(key, prov, "image", "Image generation failed: ", referenceImageBase64)
  IN  IF call.result.success THEN call
      ELSE [ call EXCEPT !.providerCalls = 2 * @ ]

\* ImageGenerationService.generateImage: on success the reference image is
\* echoed as images[0].inlineData.data
ServiceGenerateImage(key, prov, referenceImageBase64) ==
  ServiceCall(key, prov, "image", "Image generation failed: ", referenceImageBase64)

TextPlaceholder == << "text-generated-description" >>

\* ImageGenerationService.generateImageFromText
ServiceGenerateImageFromText(key, prov) ==
  ServiceCall(key, prov, "text", "Text-to-image generation failed: ", TextPlaceholder)

\* ImageGenerationService.listModels and testConnection: the probe result
\* object (its success flag and error text)
ServiceTestConnection(key, prov) ==
  IF ~key THEN [ success |-> FALSE, error |-> KeyMissingMessage ]
  ELSE IF ~prov.listOk THEN [ success |-> FALSE, error |-> prov.message ]
  ELSE IF getBestAvailableModel("text", prov.accepts) \notin prov.accepts
       THEN [ success |-> FALSE, error |-> prov.constructMessage ]
  ELSE IF ~prov.ok THEN [ success |-> FALSE, error |-> prov.message ]
  ELSE [ success |-> TRUE, error |-> <<>> ]

\* ------------------------------------------------------ the store helpers
VARIABLES
  db,          \* the connection handle of config/database.js (Null until connected)
  client,      \* the MongoClient of config/database.js (Null until created)
  server,      \* the HTTP server of index.js: none, listening, closed, exited
  proc,        \* the calls of connectDB and gracefulShutdown in flight; clients created
  store,       \* a direct call of a store helper: arguments and outcome
  images,      \* collection 'images', in insertion (natural) order
  generated,   \* collection 'generated_images', in insertion order
  nextId,      \* the next value uuidv4() returns
  env,         \* process.env: GEMINI_API_KEY set or not
  req,         \* the requests in flight: input, handler position, locals
  gw,          \* a direct call of the gateway: arguments and result
  last,        \* the request answered last, with its response
  issued,      \* the number of requests received
  uploaded     \* the acknowledged uploads: request body, returned id, deleted since

vars == << db, client, server, proc, store, images, generated, nextId, env, req, gw, last, issued, uploaded >>

NotConnectedMessage == << "Database not connected. Call connectDB() first." >>
DriverMessage == << "MongoNetworkError" >>

\* a query is an equality on one top-level field; All is {}
All == [ field |-> "", value |-> "" ]
By(field, value) == [ field |-> field, value |-> value ]

Matches(doc, query) == query.field = "" \/ doc[query.field] = query.value

Find(coll, query) == SelectSeq(coll, LAMBDA doc : Matches(doc, query))

FirstMatch(coll, query) ==
  CHOOSE i \in 1..Len(coll) :
    Matches(coll[i], query) /\ \A j \in 1..(i - 1) : ~Matches(coll[j], query)

\* a removal that also drops what follows the document
RemoveFrom(coll, i) == SubSeq(coll, 1, i - 1)

Remove(coll, i) == SubSeq(coll, 1, i - 1) \o SubSeq(coll, i + 1, Len(coll))

\* driverCalls: the calls made on the driver's collection object
Thrown(message, driverCalls) ==
  [ thrown |-> TRUE, message |-> message, value |-> <<>>, count |-> 0,
    driverCalls |-> driverCalls ]
Returned(value, count) ==
  [ thrown |-> FALSE, message |-> <<>>, value |-> value, count |-> count, driverCalls |-> 1 ]

\* getDB and the driver call of each helper: fault is a driver error
StoreError(handle, fault) ==
  IF handle = Null THEN Thrown(NotConnectedMessage, 0) ELSE Thrown(DriverMessage, 1)

\* readDB: find(query).toArray()
readDB(handle, fault, coll, query) ==
  IF handle = Null \/ fault THEN StoreError(handle, fault)
  ELSE Returned(Find(coll, query), Len(Find(coll, query)))

\* writeDB: insertOne(data); value is the collection after the insert
writeDB(handle, fault, coll, data) ==
  IF handle = Null \/ fault THEN StoreError(handle, fault)
  ELSE Returned(Append(coll, data), 1)

\* getDB() followed by database.listCollections().toArray(); the names are
\* used for logging and the debug payload only
listCollections(handle, fault) ==
  IF handle = Null \/ fault THEN StoreError(handle, fault) ELSE Returned(<<>>, 0)

\* updateDB: updateOne(query, { $set: updateData }) changes the first match;
\* value is the collection after the update, count is matchedCount
Set(doc, updateData) ==
  [ f \in DOMAIN doc |-> IF f = updateData.field THEN updateData.value ELSE doc[f] ]

updateDB(handle, fault, coll, query, updateData) ==
  IF handle = Null \/ fault THEN StoreError(handle, fault)
  ELSE IF Find(coll, query) = <<>> THEN Returned(coll, 0)
  ELSE Returned([ coll EXCEPT ![FirstMatch(coll, query)] = Set(@, updateData) ], 1)

\* a delete that goes to the driver whatever the handle is
deleteDBWithoutGetDB(handle, fault, coll, query) ==
  IF fault THEN Thrown(DriverMessage, 1)
  ELSE IF Find(coll, query) = <<>> THEN Returned(coll, 0)
  ELSE Returned(Remove(coll, FirstMatch(coll, query)), 1)

\* deleteDB: deleteOne(query); value is the collection after the delete,
\* count is deletedCount
deleteDB(handle, fault, coll, query) ==
  IF handle = Null \/ fault THEN StoreError(handle, fault)
  ELSE IF Find(coll, query) = <<>> THEN Returned(coll, 0)
  ELSE Returned(Remove(coll, FirstMatch(coll, query)), 1)

\* ------------------------------------------------------------ requests
NoFile == [ present |-> FALSE, bytes |-> <<>>, mimetype |-> Undefined, originalname |-> Undefined ]
File(bytes, mimetype, originalname) ==
  [ present |-> TRUE, bytes |-> bytes, mimetype |-> mimetype, originalname |-> originalname ]

\* req.body, req.file, req.files, req.params and the content type
EmptyBody ==
  [ promptId |-> Undefined, promptid |-> Undefined, promptName |-> Undefined,
    prompt |-> Undefined, aiImage |-> NoImage, file |-> NoFile,
    json |-> TRUE, referenceImage |-> NoImage, files |-> <<>>, id |-> 0 ]

NoResp ==
  [ status |-> 0, success |-> FALSE, message |-> <<>>, hasError |-> FALSE,
    error |-> <<>>, data |-> <<>> ]

\* res.status(status).json({ success, message, error?, data? })
Ok(status, message, data) ==
  [ status |-> status, success |-> TRUE, message |-> << message >>,
    hasError |-> FALSE, error |-> <<>>, data |-> data ]
Fail(status, message) ==
  [ status |-> status, success |-> FALSE, message |-> << message >>,
    hasError |-> FALSE, error |-> <<>>, data |-> <<>> ]
FailWith(status, message, error) ==
  [ status |-> status, success |-> FALSE, message |-> << message >>,
    hasError |-> TRUE, error |-> error, data |-> <<>> ]

ZeroCalls == [ lookups |-> 0, gateway |-> 0, provider |-> 0, inserts |-> 0 ]

IdleReq ==
  [ h |-> "none", body |-> EmptyBody, pc |-> "idle", existingImages |-> <<>>,
    imageResult |-> NoResult, caught |-> "none", calls |-> ZeroCalls,
    resp |-> NoResp ]

Reqs == 1..MaxReq

\* a new request reaches a listening server, or a closed one over a
\* connection opened before server.close(), and takes the lowest free slot
FreeSlot(r) ==
  /\ server \in { "listening", "closed" }
  /\ issued < MaxReq
  /\ req[r].pc = "idle"
  /\ \A q \in 1..(r - 1) : req[q].pc # "idle"

\* the handler's first step leaves the request at rec: answered, or
\* waiting at an await
Receive(r, rec) ==
  /\ issued' = issued + 1
  /\ IF rec.pc = "done"
     THEN req' = req /\ last' = rec
     ELSE req' = [ req EXCEPT ![r] = rec ] /\ last' = last

\* a later step of the handler, in a process that has not exited
Continue(r, rec) ==
  /\ server # "exited"
  /\ issued' = issued
  /\ IF rec.pc = "done"
     THEN req' = [ req EXCEPT ![r] = IdleReq ] /\ last' = rec
     ELSE req' = [ req EXCEPT ![r] = rec ] /\ last' = last

Begin(h, body) == [ IdleReq EXCEPT !.h = h, !.body = body ]

Done(rec, resp) == [ rec EXCEPT !.pc = "done", !.resp = resp ]

Caught(rec, kind) == [ rec EXCEPT !.caught = kind ]

IdleGateway ==
  [ pc |-> "idle", fn |-> "none", referenceImage |-> << "W", "Q", "=", "=" >>,
    prov |-> Provider({}, <<>>, FALSE, FALSE, <<>>),
    result |-> NoResult, providerCalls |-> 0,
    task |-> Undefined, modelName |-> Undefined, raised |-> FALSE ]

\* ------------------------------------------- controllers/uploadImage&promts.js
DataUrl(file) == << "data:", file.mimetype, ";base64," >> \o Base64(file.bytes)

FsError == [ code |-> "ENOENT", message |-> << "ENOENT: no such file or directory" >> ]

\* the catch block of uploadImage
UploadCatch(error) ==
  IF error.code = "LIMIT_FILE_SIZE" THEN
    FailWith(400, "File too large. Maximum size is 10MB", << "FILE_SIZE_ERROR" >>)
  ELSE IF Includes(error.message, << "Only image files" >>) THEN
    [ FailWith(400, "", << "INVALID_FILE_TYPE" >>) EXCEPT !.message = error.message ]
  ELSE
    FailWith(500, "Internal server error during upload", << "UPLOAD_ERROR" >>)

\* a document that stores the image as a data URL in both cases
UploadDocWrapped(id, body) ==
  [ _id |-> id, promptId |-> body.promptId, promptName |-> body.promptName,
    prompt |-> body.prompt,
    base64Image |-> IF body.file.present THEN DataUrl(body.file)
                    ELSE << "data:", "image/jpeg", ";base64," >> \o body.aiImage,
    originalName |-> IF body.file.present THEN body.file.originalname ELSE "uploaded-image",
    size |-> IF body.file.present THEN Len(body.file.bytes) ELSE 0,
    mimetype |-> IF body.file.present THEN body.file.mimetype ELSE "image/jpeg" ]

\* the document uploadImage builds (the three timestamps are left out)
UploadDoc(id, body) ==
  [ _id |-> id, promptId |-> body.promptId, promptName |-> body.promptName,
    prompt |-> body.prompt,
    base64Image |-> IF body.file.present THEN DataUrl(body.file) ELSE body.aiImage,
    originalName |-> IF body.file.present THEN body.file.originalname ELSE "uploaded-image",
    size |-> IF body.file.present THEN Len(body.file.bytes) ELSE 0,
    mimetype |-> IF body.file.present THEN body.file.mimetype ELSE "image/jpeg" ]

Summary(doc) ==
  [ id |-> doc._id, promptId |-> doc.promptId, promptName |-> doc.promptName,
    prompt |-> doc.prompt, originalName |-> doc.originalName, size |-> doc.size,
    mimetype |-> doc.mimetype ]

\* POST /api/images/upload
uploadImage(r, body, fsFault, fault) ==
  /\ FreeSlot(r)
  /\ LET rec == Begin("uploadImage", body)
         doc == UploadDoc(nextId, body)
         wr == writeDB(db, fault, images, doc)
     IN
     IF Falsy(body.promptId) \/ Falsy(body.promptName) \/ Falsy(body.prompt) THEN
       /\ Receive(r, Done(rec,
            FailWith(400, "Missing required fields: promptId, promptName, and prompt are required",
                     << "VALIDATION_ERROR" >>)))
       /\ UNCHANGED << images, nextId, uploaded >>
     ELSE IF body.file.present /\ fsFault THEN
       /\ Receive(r, Done(Caught(rec, "fs"), UploadCatch(FsError)))
       /\ UNCHANGED << images, nextId, uploaded >>
     ELSE IF ~body.file.present /\ body.aiImage = NoImage THEN
       /\ Receive(r, Done(rec,
            FailWith(400, "No image data provided (either file upload or base64)",
                     << "NO_IMAGE_ERROR" >>)))
       /\ UNCHANGED << images, nextId, uploaded >>
     ELSE IF wr.thrown THEN
       /\ Receive(r, Done(Caught(rec, "store"),
            FailWith(500, "Failed to save image to database", << "DATABASE_SAVE_ERROR" >>)))
       /\ nextId' = nextId + 1
       /\ UNCHANGED << images, uploaded >>
     ELSE
       /\ Receive(r, Done([ rec EXCEPT !.calls.inserts = 1 ],
            Ok(201, "Image uploaded and converted to base64 successfully", Summary(doc))))
       /\ images' = wr.value
       /\ nextId' = nextId + 1
       /\ uploaded' = Append(uploaded, [ id |-> doc._id, body |-> body, deleted |-> FALSE ])
  /\ UNCHANGED << client, server, proc, store, db, generated, env, gw >>

Full(doc) ==
  [ id |-> doc._id, promptId |-> doc.promptId, promptName |-> doc.promptName,
    prompt |-> doc.prompt, base64Image |-> doc.base64Image,
    originalName |-> doc.originalName, size |-> doc.size, mimetype |-> doc.mimetype ]

\* GET /api/images/:id
getImageById(r, id, fault) ==
  /\ FreeSlot(r)
  /\ LET rec == [ Begin("getImageById", [ EmptyBody EXCEPT !.id = id ]) EXCEPT !.calls.lookups = 1 ]
         rd == readDB(db, fault, images, By("_id", id))
     IN  Receive(r,
           IF rd.thrown THEN
             Done(Caught(rec, "store"), FailWith(500, "Error retrieving image", << "RETRIEVE_ERROR" >>))
           ELSE IF rd.value = <<>> THEN
             Done(rec, FailWith(404, "Image not found", << "NOT_FOUND" >>))
           ELSE Done(rec, Ok(200, "Image retrieved successfully", Full(rd.value[1]))))
  /\ UNCHANGED << client, server, proc, store, db, images, generated, nextId, env, gw, uploaded >>

\* a delete that also removes the artifacts generated for the promptId of
\* the record
deleteImageCascade(r, id, fault) ==
  /\ FreeSlot(r)
  /\ LET rec == Begin("deleteImage", [ EmptyBody EXCEPT !.id = id ])
         del == deleteDB(db, fault, images, By("_id", id))
         gone == { images[i].promptId : i \in { j \in 1..Len(images) : images[j]._id = id } }
     IN
     /\ Receive(r,
           IF del.thrown THEN
             Done(Caught(rec, "store"), FailWith(500, "Error deleting image", << "DELETE_ERROR" >>))
           ELSE IF del.count = 0 THEN
             Done(rec, FailWith(404, "Image not found", << "NOT_FOUND" >>))
           ELSE Done(rec, Ok(200, "Image deleted successfully", <<>>)))
     /\ images' = IF del.thrown THEN images ELSE del.value
     /\ generated' = IF del.thrown THEN generated
                     ELSE SelectSeq(generated, LAMBDA doc : doc.promptId \notin gone)
     /\ uploaded' = IF del.thrown \/ del.count = 0 THEN uploaded
                    ELSE [ i \in 1..Len(uploaded) |->
                           IF uploaded[i].id = id THEN [ uploaded[i] EXCEPT !.deleted = TRUE ]
                           ELSE uploaded[i] ]
  /\ UNCHANGED << client, server, proc, store, db, nextId, env, gw >>

\* DELETE /api/images/:id
deleteImage(r, id, fault) ==
  /\ FreeSlot(r)
  /\ LET rec == Begin("deleteImage", [ EmptyBody EXCEPT !.id = id ])
         del == deleteDB(db, fault, images, By("_id", id))
     IN
     /\ Receive(r,
           IF del.thrown THEN
             Done(Caught(rec, "store"), FailWith(500, "Error deleting image", << "DELETE_ERROR" >>))
           ELSE IF del.count = 0 THEN
             Done(rec, FailWith(404, "Image not found", << "NOT_FOUND" >>))
           ELSE Done(rec, Ok(200, "Image deleted successfully", <<>>)))
     /\ images' = IF del.thrown THEN images ELSE del.value
     /\ uploaded' = IF del.thrown \/ del.count = 0 THEN uploaded
                    ELSE [ i \in 1..Len(uploaded) |->
                           IF uploaded[i].id = id THEN [ uploaded[i] EXCEPT !.deleted = TRUE ]
                           ELSE uploaded[i] ]
  /\ UNCHANGED << client, server, proc, store, db, generated, nextId, env, gw >>

\* GET /api/images
getAllImages(r, fault) ==
  /\ FreeSlot(r)
  /\ LET rec == [ Begin("getAllImages", EmptyBody) EXCEPT !.calls.lookups = 1 ]
         rd == readDB(db, fault, images, All)
     IN  Receive(r,
           IF rd.thrown THEN
             Done(Caught(rec, "store"), FailWith(500, "Error retrieving images", << "RETRIEVE_ERROR" >>))
           ELSE Done(rec, Ok(200, "Images retrieved successfussy",
                  [ promptId |-> [ i \in 1..Len(rd.value) |-> rd.value[i].promptId ],
                    aiImage |-> [ i \in 1..Len(rd.value) |-> rd.value[i].base64Image ],
                    count |-> Len(rd.value) ])))
  /\ UNCHANGED << client, server, proc, store, db, images, generated, nextId, env, gw, uploaded >>

\* GET /api/images/prompt/:promptId
getImagesByPromptId(r, promptId, fault) ==
  /\ FreeSlot(r)
  /\ LET rec == Begin("getImagesByPromptId", [ EmptyBody EXCEPT !.promptId = promptId ])
         rd == readDB(db, fault, images, By("promptId", promptId))
     IN  Receive(r,
           IF Falsy(promptId) THEN
             Done(rec, FailWith(400, "promptId parameter is required", << "MISSING_PARAMETER" >>))
           ELSE IF rd.thrown THEN
             Done(Caught([ rec EXCEPT !.calls.lookups = 1 ], "store"),
                  FailWith(500, "Error retrieving images by promptId", << "RETRIEVE_ERROR" >>))
           ELSE IF Len(rd.value) = 0 THEN
             Done([ rec EXCEPT !.calls.lookups = 1 ],
                  FailWith(404, "No images found for the provided promptId", << "NOT_FOUND" >>))
           ELSE Done([ rec EXCEPT !.calls.lookups = 1 ],
                  Ok(200, "Images retrieved successfully by promptId",
                     [ data |-> [ i \in 1..Len(rd.value) |-> Full(rd.value[i]) ],
                       count |-> Len(rd.value) ])))
  /\ UNCHANGED << client, server, proc, store, db, images, generated, nextId, env, gw, uploaded >>

\* ------------------------------------------------- the Gemini controller
\* promptId and referenceImage as generateImage reads them from a JSON
\* body or from form data (multer file first, then the body field)
ParsedPromptId(body) ==
  IF body.json THEN body.promptId ELSE Or(body.promptId, body.promptid)

ParsedReferenceImage(body) ==
  IF body.json THEN body.referenceImage
  ELSE IF Len(body.files) > 0 THEN Base64(body.files[1].bytes)
  ELSE body.referenceImage

\* the catch block of the Gemini controller's handlers
InternalError(rec, message, thrown) ==
  Done(Caught(rec, "store"), FailWith(500, message, thrown.message))

\* generateImage that skips the check of referenceImage
generateImageUnchecked(r, body, fault) ==
  /\ FreeSlot(r)
  /\ LET rec == Begin("generateImage", body)
         collections == listCollections(db, fault)
     IN  Receive(r,
           IF Falsy(ParsedPromptId(body)) THEN Done(rec, Fail(400, "promptId is required"))
           ELSE IF collections.thrown THEN InternalError(rec, "Internal server error", collections)
           ELSE [ rec EXCEPT !.pc = "lookup" ])
  /\ UNCHANGED << client, server, proc, store, db, images, generated, nextId, env, gw, uploaded >>

\* POST /api/gemini/generate, up to the listing of the collections:
\* validation, getDB() and listCollections().toArray()
generateImage(r, body, fault) ==
  /\ FreeSlot(r)
  /\ LET rec == Begin("generateImage", body)
         collections == listCollections(db, fault)
     IN  Receive(r,
           IF Falsy(ParsedPromptId(body)) THEN Done(rec, Fail(400, "promptId is required"))
           ELSE IF ParsedReferenceImage(body) = NoImage THEN
             Done(rec, Fail(400, "referenceImage is required"))
           ELSE IF collections.thrown THEN InternalError(rec, "Internal server error", collections)
           ELSE [ rec EXCEPT !.pc = "lookup" ])
  /\ UNCHANGED << client, server, proc, store, db, images, generated, nextId, env, gw, uploaded >>

\* a lookup whose empty result goes on to the gateway
generateImageLookupNoCheck(r, fault) ==
  /\ req[r].h = "generateImage" /\ req[r].pc = "lookup"
  /\ LET rec == [ req[r] EXCEPT !.calls.lookups = @ + 1 ]
         rd == readDB(db, fault, images, By("promptId", ParsedPromptId(req[r].body)))
     IN  Continue(r,
           IF rd.thrown THEN InternalError(rec, "Internal server error", rd)
           ELSE [ rec EXCEPT !.existingImages = rd.value, !.pc = "gateway" ])
  /\ UNCHANGED << client, server, proc, store, db, images, generated, nextId, env, gw, uploaded >>

\* generateImage: readDB('images', { promptId })
generateImageLookup(r, fault) ==
  /\ req[r].h = "generateImage" /\ req[r].pc = "lookup"
  /\ LET rec == [ req[r] EXCEPT !.calls.lookups = @ + 1 ]
         rd == readDB(db, fault, images, By("promptId", ParsedPromptId(req[r].body)))
     IN  Continue(r,
           IF rd.thrown THEN InternalError(rec, "Internal server error", rd)
           ELSE [ rec EXCEPT !.existingImages = rd.value,
                             !.pc = IF Len(rd.value) = 0 THEN "scan" ELSE "gateway" ])
  /\ UNCHANGED << client, server, proc, store, db, images, generated, nextId, env, gw, uploaded >>

\* generateImage, nothing found: the diagnostic readDB('images', {}) and
\* the 404 response (its debug object is left out)
generateImageScan(r, fault) ==
  /\ req[r].h = "generateImage" /\ req[r].pc = "scan"
  /\ LET rec == [ req[r] EXCEPT !.calls.lookups = @ + 1 ]
         rd == readDB(db, fault, images, All)
     IN  Continue(r,
           IF rd.thrown THEN InternalError(rec, "Internal server error", rd)
           ELSE Done(rec, Fail(404, "No prompt found with the provided promptId")))
  /\ UNCHANGED << client, server, proc, store, db, images, generated, nextId, env, gw, uploaded >>

\* a gateway step that reports the provider's failure as a bad request
generateImageGatewayAsValidation(r, prov) ==
  /\ req[r].h = "generateImage" /\ req[r].pc = "gateway"
  /\ LET call == ServiceGenerateImage(env.key, prov, ParsedReferenceImage(req[r].body))
         rec == [ req[r] EXCEPT !.imageResult = call.result,
                                !.calls.gateway = @ + 1,
                                !.calls.provider = @ + call.providerCalls ]
     IN  Continue(r,
           IF ~call.result.success THEN
             Done(rec, FailWith(400, "Image generation failed", call.result.error))
           ELSE [ rec EXCEPT !.pc = "save" ])
  /\ UNCHANGED << client, server, proc, store, db, images, generated, nextId, env, gw, uploaded >>

\* generateImage: the call of imageGenerationService.generateImage
generateImageGateway(r, prov) ==
  /\ req[r].h = "generateImage" /\ req[r].pc = "gateway"
  /\ LET call == ServiceGenerateImage(env.key, prov, ParsedReferenceImage(req[r].body))
         rec == [ req[r] EXCEPT !.imageResult = call.result,
                                !.calls.gateway = @ + 1,
                                !.calls.provider = @ + call.providerCalls ]
     IN  Continue(r,
           IF ~call.result.success THEN
             Done(rec, FailWith(500, "Image generation failed", call.result.error))
           ELSE [ rec EXCEPT !.pc = "save" ])
  /\ UNCHANGED << client, server, proc, store, db, images, generated, nextId, env, gw, uploaded >>

\* the record at the end of the lookup result
PromptDataLast(existingImages) == existingImages[Len(existingImages)]

\* the prompt record generateImage takes prompt and promptName from
PromptData(existingImages) == existingImages[1]

\* the artifact generateImage builds (createdAt is left out)
GeneratedDoc(id, promptId, promptName, prompt, data, originalName) ==
  [ _id |-> id, promptId |-> promptId, promptName |-> promptName, prompt |-> prompt,
    base64Image |-> data, originalName |-> originalName, size |-> Len(data),
    mimetype |-> "image/jpeg", type |-> "generated" ]

\* a save that keeps one artifact per promptId, replacing the earlier one
generateImageSaveUpsert(r, fault) ==
  /\ req[r].h = "generateImage" /\ req[r].pc = "save"
  /\ LET promptData == req[r].existingImages[1]
         doc == [ _id |-> nextId, promptId |-> ParsedPromptId(req[r].body),
                  promptName |-> promptData.promptName, prompt |-> promptData.prompt,
                  base64Image |-> req[r].imageResult.data,
                  originalName |-> "ai-generated-image.jpg",
                  size |-> Len(req[r].imageResult.data),
                  mimetype |-> "image/jpeg", type |-> "generated" ]
         others == SelectSeq(generated, LAMBDA d : d.promptId # doc.promptId)
         wr == writeDB(db, fault, others, doc)
     IN
     /\ Continue(r,
           IF wr.thrown THEN InternalError(req[r], "Internal server error", wr)
           ELSE Done([ req[r] EXCEPT !.calls.inserts = @ + 1 ],
                     Ok(200, "Image generated successfully",
                        [ imageId |-> doc._id, promptId |-> doc.promptId,
                          promptName |-> doc.promptName, base64Image |-> doc.base64Image ])))
     /\ generated' = IF wr.thrown THEN generated ELSE wr.value
     /\ nextId' = nextId + 1
  /\ UNCHANGED << client, server, proc, store, db, images, env, gw, uploaded >>

\* a save that reads the prompt record again and gives up when it is gone
generateImageSaveRechecking(r, fault) ==
  /\ req[r].h = "generateImage" /\ req[r].pc = "save"
  /\ LET rd == readDB(db, fault, images, By("promptId", ParsedPromptId(req[r].body)))
         gone == ~rd.thrown /\ rd.value = <<>>
         promptData == IF rd.thrown \/ gone THEN req[r].existingImages[1] ELSE rd.value[1]
         doc == GeneratedDoc(nextId, ParsedPromptId(req[r].body), promptData.promptName,
                             promptData.prompt, req[r].imageResult.data,
                             "ai-generated-image.jpg")
         wr == writeDB(db, fault, generated, doc)
     IN
     /\ Continue(r,
           IF wr.thrown THEN InternalError(req[r], "Internal server error", wr)
           ELSE IF gone THEN
             Done(req[r], Fail(404, "No prompt found with the provided promptId"))
           ELSE Done([ req[r] EXCEPT !.calls.inserts = @ + 1 ],
                     Ok(200, "Image generated successfully",
                        [ imageId |-> doc._id, promptId |-> doc.promptId,
                          promptName |-> doc.promptName, base64Image |-> doc.base64Image ])))
     /\ generated' = IF wr.thrown \/ gone THEN generated ELSE wr.value
     /\ nextId' = nextId + 1
  /\ UNCHANGED << client, server, proc, store, db, images, env, gw, uploaded >>

\* generateImage: writeDB('generated_images', imageData) and the response
generateImageSave(r, fault) ==
  /\ req[r].h = "generateImage" /\ req[r].pc = "save"
  /\ LET promptData == PromptData(req[r].existingImages)
         doc == GeneratedDoc(nextId, ParsedPromptId(req[r].body), promptData.promptName,
                             promptData.prompt, req[r].imageResult.data,
                             "ai-generated-image.jpg")
         wr == writeDB(db, fault, generated, doc)
     IN
     /\ Continue(r,
           IF wr.thrown THEN InternalError(req[r], "Internal server error", wr)
           ELSE Done([ req[r] EXCEPT !.calls.inserts = @ + 1 ],
                     Ok(200, "Image generated successfully",
                        [ imageId |-> doc._id, promptId |-> doc.promptId,
                          promptName |-> doc.promptName, base64Image |-> doc.base64Image ])))
     /\ generated' = IF wr.thrown THEN generated ELSE wr.value
     /\ nextId' = nextId + 1
  /\ UNCHANGED << client, server, proc, store, db, images, env, gw, uploaded >>

\* the artifact of a text generation stored under the prompt as its name
TextDocNamedByPrompt(id, prompt, data) ==
  GeneratedDoc(id, Null, prompt, prompt, data, "ai-text-generated-image.jpg")

\* the artifact generateImageFromText builds
TextDoc(id, prompt, data) ==
  GeneratedDoc(id, Null, "Text Prompt", prompt, data, "ai-text-generated-image.jpg")

\* generateImageFromText that skips the check of prompt
generateImageFromTextUnchecked(r, body, prov) ==
  /\ FreeSlot(r)
  /\ LET rec == Begin("generateImageFromText", body)
         call == ServiceGenerateImageFromText(env.key, prov)
         called == [ rec EXCEPT !.imageResult = call.result, !.calls.gateway = 1,
                                !.calls.provider = call.providerCalls ]
     IN  Receive(r,
           IF ~call.result.success THEN
             Done(called, FailWith(500, "Image generation failed", call.result.error))
           ELSE [ called EXCEPT !.pc = "save" ])
  /\ UNCHANGED << client, server, proc, store, db, images, generated, nextId, env, gw, uploaded >>

\* POST /api/gemini/generate-text, up to the gateway's answer: validation
\* and the call of imageGenerationService.generateImageFromText
generateImageFromText(r, body, prov) ==
  /\ FreeSlot(r)
  /\ LET rec == Begin("generateImageFromText", body)
         call == ServiceGenerateImageFromText(env.key, prov)
         called == [ rec EXCEPT !.imageResult = call.result, !.calls.gateway = 1,
                                !.calls.provider = call.providerCalls ]
     IN  Receive(r,
           IF Falsy(body.prompt) THEN Done(rec, Fail(400, "prompt is required"))
           ELSE IF ~call.result.success THEN
             Done(called, FailWith(500, "Image generation failed", call.result.error))
           ELSE [ called EXCEPT !.pc = "save" ])
  /\ UNCHANGED << client, server, proc, store, db, images, generated, nextId, env, gw, uploaded >>

\* a save that reports a failed insert as a success with a warning
generateImageFromTextSaveWithWarning(r, fault) ==
  /\ req[r].h = "generateImageFromText" /\ req[r].pc = "save"
  /\ LET doc == TextDoc(nextId, req[r].body.prompt, req[r].imageResult.data)
         wr == writeDB(db, fault, generated, doc)
         data == [ imageId |-> doc._id, prompt |-> doc.prompt, base64Image |-> doc.base64Image ]
     IN
     /\ Continue(r,
           IF wr.thrown THEN
             Done(Caught(req[r], "store"),
                  Ok(200, "Image generated successfully from text, not saved", data))
           ELSE Done([ req[r] EXCEPT !.calls.inserts = @ + 1 ],
                     Ok(200, "Image generated successfully from text", data)))
     /\ generated' = IF wr.thrown THEN generated ELSE wr.value
     /\ nextId' = nextId + 1
  /\ UNCHANGED << client, server, proc, store, db, images, env, gw, uploaded >>

\* generateImageFromText: writeDB('generated_images', imageData) and the
\* response
generateImageFromTextSave(r, fault) ==
  /\ req[r].h = "generateImageFromText" /\ req[r].pc = "save"
  /\ LET doc == TextDoc(nextId, req[r].body.prompt, req[r].imageResult.data)
         wr == writeDB(db, fault, generated, doc)
     IN
     /\ Continue(r,
           IF wr.thrown THEN InternalError(req[r], "Internal server error", wr)
           ELSE Done([ req[r] EXCEPT !.calls.inserts = @ + 1 ],
                     Ok(200, "Image generated successfully from text",
                        [ imageId |-> doc._id, prompt |-> doc.prompt,
                          base64Image |-> doc.base64Image ])))
     /\ generated' = IF wr.thrown THEN generated ELSE wr.value
     /\ nextId' = nextId + 1
  /\ UNCHANGED << client, server, proc, store, db, images, env, gw, uploaded >>

\* if (isConnected): the service returns an object, and every object is truthy
Truthy(object) == TRUE

\* GET /api/gemini/test
testConnection(r, prov) ==
  /\ FreeSlot(r)
  /\ LET isConnected == ServiceTestConnection(env.key, prov)
         rec == [ Begin("testConnection", EmptyBody) EXCEPT
                    !.imageResult = [ NoResult EXCEPT !.success = isConnected.success,
                                                      !.error = isConnected.error ],
                    !.calls.gateway = 1 ]
     IN  Receive(r,
           IF Truthy(isConnected) THEN Done(rec, Ok(200, "Gemini API connection successful", <<>>))
           ELSE Done(rec, Fail(500, "Gemini API connection failed")))
  /\ UNCHANGED << client, server, proc, store, db, images, generated, nextId, env, gw, uploaded >>

\* the scan of getPrompts: records without a promptId are skipped, a
\* promptId seen before is skipped
RECURSIVE UniquePrompts(_, _, _)
UniquePrompts(imgs, seenPrompts, uniquePrompts) ==
  IF imgs = <<>> THEN uniquePrompts
  ELSE LET img == Head(imgs) IN
       IF ~Falsy(img.promptId) /\ img.promptId \notin seenPrompts
       THEN UniquePrompts(Tail(imgs), seenPrompts \cup { img.promptId },
              Append(uniquePrompts,
                     [ id |-> img.promptId, promptName |-> img.promptName, prompt |-> img.prompt ]))
       ELSE UniquePrompts(Tail(imgs), seenPrompts, uniquePrompts)

\* a scan in which a later record of a promptId replaces the entry
RECURSIVE LastWins(_, _)
LastWins(imgs, uniquePrompts) ==
  IF imgs = <<>> THEN uniquePrompts
  ELSE LET img == Head(imgs)
           entry == [ id |-> img.promptId, promptName |-> img.promptName, prompt |-> img.prompt ]
       IN  IF \E i \in 1..Len(uniquePrompts) : uniquePrompts[i].id = img.promptId
           THEN LastWins(Tail(imgs),
                  [ i \in 1..Len(uniquePrompts) |->
                      IF uniquePrompts[i].id = img.promptId THEN entry ELSE uniquePrompts[i] ])
           ELSE LastWins(Tail(imgs), Append(uniquePrompts, entry))

ListLastWins(imgs) == LastWins(imgs, <<>>)

ListPrompts(imgs) == UniquePrompts(imgs, {}, <<>>)

\* GET /api/gemini/prompts
getPrompts(r, fault) ==
  /\ FreeSlot(r)
  /\ LET rec == [ Begin("getPrompts", EmptyBody) EXCEPT !.calls.lookups = 1 ]
         rd == readDB(db, fault, images, All)
     IN  Receive(r,
           IF rd.thrown THEN InternalError(rec, "Failed to fetch prompts", rd)
           ELSE Done([ rec EXCEPT !.existingImages = rd.value ],
                     Ok(200, "Prompts retrieved successfully", ListPrompts(rd.value))))
  /\ UNCHANGED << client, server, proc, store, db, images, generated, nextId, env, gw, uploaded >>

\* GET /api/gemini/generated-images
getGeneratedImages(r, fault) ==
  /\ FreeSlot(r)
  /\ LET rec == [ Begin("getGeneratedImages", EmptyBody) EXCEPT !.calls.lookups = 1 ]
         rd == readDB(db, fault, generated, All)
     IN  Receive(r,
           IF rd.thrown THEN InternalError(rec, "Failed to fetch generated images", rd)
           ELSE Done(rec, Ok(200, "Generated images retrieved successfully",
                             [ data |-> rd.value, count |-> Len(rd.value) ])))
  /\ UNCHANGED << client, server, proc, store, db, images, generated, nextId, env, gw, uploaded >>

\* GET /api/gemini/debug: listCollections, the two scans and the gateway
\* probe, taken at one instant; a failed probe is reported inside a 200
debugFlow(r, fault, prov) ==
  /\ FreeSlot(r)
  /\ LET rec == [ Begin("debugFlow", EmptyBody) EXCEPT !.calls.lookups = 2 ]
         collections == listCollections(db, fault)
         probe == ServiceTestConnection(env.key, prov)
     IN  Receive(r,
           IF collections.thrown THEN InternalError(rec, "Debug flow failed", collections)
           ELSE Done([ rec EXCEPT !.calls.gateway = 1,
                                  !.imageResult = [ NoResult EXCEPT !.success = probe.success,
                                                                    !.error = probe.error ] ],
                     Ok(200, "Debug information retrieved",
                        [ totalImages |-> Len(images), totalGeneratedImages |-> Len(generated),
                          gemini |-> probe.success, hasGeminiKey |-> env.key ])))
  /\ UNCHANGED << client, server, proc, store, db, images, generated, nextId, env, gw, uploaded >>

\* --------------------------------------------- a direct call of the gateway
gatewayGenerateImage ==
  /\ gw.pc = "ready" /\ gw.fn = "generateImage"
  /\ LET call == ServiceGenerateImage(env.key, gw.prov, gw.referenceImage)
     IN  gw' = [ gw EXCEPT !.pc = "returned", !.result = call.result,
                           !.providerCalls = call.providerCalls ]
  /\ UNCHANGED << client, server, proc, store, db, images, generated, nextId, env, req, last, issued, uploaded >>

gatewayGenerateImageFromText ==
  /\ gw.pc = "ready" /\ gw.fn = "generateImageFromText"
  /\ LET call == ServiceGenerateImageFromText(env.key, gw.prov)
     IN  gw' = [ gw EXCEPT !.pc = "returned", !.result = call.result,
                           !.providerCalls = call.providerCalls ]
  /\ UNCHANGED << client, server, proc, store, db, images, generated, nextId, env, req, last, issued, uploaded >>

\* getBestAvailableModel(task) called directly: the identifier returned, or
\* the TypeError of the loop
gatewayGetBestAvailableModel ==
  /\ gw.pc = "ready" /\ gw.fn = "getBestAvailableModel"
  /\ gw' = IF NotIterable(gw.task) THEN [ gw EXCEPT !.pc = "returned", !.raised = TRUE ]
           ELSE [ gw EXCEPT !.pc = "returned",
                            !.modelName = getBestAvailableModel(gw.task, gw.prov.accepts) ]
  /\ UNCHANGED << client, server, proc, store, db, images, generated, nextId, env, req, last,
                  issued, uploaded >>

\* ----------------------------------------------------------------- inputs
ImgX == << "W", "A", "=", "=" >>
ImgY == << "W", "Q", "=", "=" >>
PngFile == File(<< 137, 80 >>, "image/png", "a.png")
EmptyFile == File(<<>>, "image/png", "e.png")
Sunset == "a sunset over mountains"
Dusk == "dusk at sea"

UploadBody(promptId, promptName, prompt, aiImage, file) ==
  [ EmptyBody EXCEPT !.promptId = promptId, !.promptName = promptName,
                     !.prompt = prompt, !.aiImage = aiImage, !.file = file ]

ValidUploads ==
  { UploadBody("p1", "Sunset", Sunset, ImgX, NoFile),
    UploadBody("p1", "Dusk", Dusk, ImgY, NoFile),
    UploadBody("p2", "Sunset", Sunset, ImgY, PngFile) }

UploadBodies ==
  ValidUploads \cup
  { UploadBody(Undefined, "Sunset", Sunset, ImgX, NoFile),
    UploadBody("p1", "", Sunset, ImgX, NoFile),
    UploadBody("p1", "Sunset", "", ImgX, NoFile),
    UploadBody("p1", "Sunset", Sunset, NoImage, NoFile) }

GenerateBody(json, promptId, promptid, referenceImage, files) ==
  [ EmptyBody EXCEPT !.json = json, !.promptId = promptId, !.promptid = promptid,
                     !.referenceImage = referenceImage, !.files = files ]

GenerateBodies ==
  { GenerateBody(TRUE, "p1", Undefined, ImgY, <<>>),
    GenerateBody(TRUE, Undefined, Undefined, ImgY, <<>>),
    GenerateBody(TRUE, "p1", Undefined, NoImage, <<>>),
    GenerateBody(FALSE, Undefined, "p2", NoImage, << PngFile >>),
    GenerateBody(FALSE, "p2", Undefined, ImgY, << EmptyFile >>) }

TextBodies == { [ EmptyBody EXCEPT !.prompt = p ] : p \in { Undefined, "", "a red fox" } }

Ids == 1..MaxReq

\* what the provider may do for a call made by a request
Providers ==
  { Provider(ModelNames, <<>>, TRUE, TRUE, <<>>),
    Provider(ModelNames, <<>>, TRUE, FALSE, P429),
    Provider(ModelNames, <<>>, TRUE, FALSE, P404),
    Provider(ModelNames, <<>>, FALSE, FALSE, << "x" >>) }

\* what the provider may do for the probe of testConnection
Probes ==
  { Provider(ModelNames, <<>>, TRUE, TRUE, <<>>),
    Provider(ModelNames, <<>>, FALSE, FALSE, << "x" >>) }

\* what the provider may do for a direct call of the gateway
Messages == SeqsUpTo(Sigma, MaxMsgLen)

\* (construction of the handle fails, generateContent fails, or it succeeds)
GatewayProviders ==
  { Provider({}, message, TRUE, FALSE, message) : message \in Messages } \cup
  { Provider(ModelNames, <<>>, TRUE, FALSE, message) : message \in Messages } \cup
  { Provider(ModelNames, <<>>, TRUE, TRUE, <<>>) }

\* the tasks getBestAvailableModel is called with: the two of the service,
\* none (the default applies), an unknown one, and one that names an
\* inherited member
Tasks == { "image", "text", Undefined, "video", "constructor" }

\* the contents the images collection can have after uploads: ids in
\* insertion order
PromptUploads == ValidUploads \cup { UploadBody("p3", "Noon", "noon", ImgY, NoFile) }

StoredImages(n) ==
  { [ i \in 1..n |-> UploadDoc(i, f[i]) ] : f \in [ 1..n -> PromptUploads ] }

\* ------------------------------------- config/database.js and index.js
\* new MongoClient(mongoUri): the n-th client object the process creates
Client(n) == "MongoClient" \o ToString(n)

\* client.db('pixora'): a new Db object of client c at every call, k counts them
Db(c, k) == "pixora@" \o c \o "#" \o ToString(k)

IdleProc ==
  [ import |-> "idle", startServer |-> "idle", gracefulShutdown |-> "idle",
    created |-> 0, assigned |-> 0 ]

IdleStore ==
  [ fn |-> "none", collection |-> "images", thrown |-> FALSE, message |-> <<>>,
    count |-> 0, driverCalls |-> 0, n |-> 0 ]

\* connectDB up to await client.connect(): the handle is tested, the client
\* is created
connectDBBegin(caller) ==
  IF db # Null THEN
    /\ proc' = [ proc EXCEPT ![caller] = "returned" ]
    /\ client' = client
  ELSE
    /\ client' = Client(proc.created + 1)
    /\ proc' = [ proc EXCEPT ![caller] = "connecting", !.created = @ + 1 ]

\* connectDB() at the load of the upload controller; the modules are loaded
\* before the body of index.js runs
importConnectDB ==
  /\ server = "none" /\ proc.import = "idle" /\ proc.startServer = "idle"
  /\ connectDBBegin("import")
  /\ UNCHANGED << server, store, db, images, generated, nextId, env, req, gw, last,
                  issued, uploaded >>

\* startServer up to await connectDB()
startServer ==
  /\ server = "none" /\ proc.import # "idle" /\ proc.startServer = "idle"
  /\ connectDBBegin("startServer")
  /\ UNCHANGED << server, store, db, images, generated, nextId, env, req, gw, last,
                  issued, uploaded >>

\* gracefulShutdown up to await closeDB(): closeDB awaits client.close(), or
\* returns at once when there is no client and server.close() follows
gracefulShutdownBegin(p) ==
  IF client # Null THEN [ p EXCEPT !.gracefulShutdown = "closing" ]
  ELSE [ p EXCEPT !.gracefulShutdown = "done" ]

\* the rest of connectDB after await client.connect(): db = client.db('pixora'),
\* or the error rethrown. For startServer, app.listen and the registration
\* of the process handlers follow, or process.exit(1). The rejection of
\* the import-time call is unhandled: it ends the process, or, once the
\* handlers are registered, starts gracefulShutdown.
connectDBResume(caller, ok) ==
  /\ server \in { "none", "listening", "closed" }
  /\ proc[caller] = "connecting" /\ proc.startServer # "idle"
  /\ IF ok /\ client # Null THEN
       /\ db' = Db(client, proc.assigned + 1)
       /\ proc' = [ proc EXCEPT ![caller] = "done", !.assigned = @ + 1 ]
       /\ server' = IF caller = "startServer" THEN "listening" ELSE server
     ELSE IF caller = "startServer" \/ server = "none" THEN
       /\ proc' = [ proc EXCEPT ![caller] = "failed" ]
       /\ server' = "exited"
       /\ db' = db
     ELSE IF proc.gracefulShutdown # "idle" THEN
       /\ proc' = [ proc EXCEPT ![caller] = "failed" ]
       /\ UNCHANGED << server, db >>
     ELSE
       /\ proc' = gracefulShutdownBegin([ proc EXCEPT ![caller] = "failed" ])
       /\ server' = IF client # Null THEN server ELSE "closed"
       /\ db' = db
  /\ UNCHANGED << client, store, images, generated, nextId, env, req, gw, last, issued,
                  uploaded >>

Signals == { "SIGTERM", "SIGINT" }

\* gracefulShutdown(signal, server) of a signal handler, up to await closeDB()
gracefulShutdown(signal) ==
  /\ server = "listening" /\ proc.gracefulShutdown = "idle"
  /\ proc' = gracefulShutdownBegin(proc)
  /\ server' = IF client # Null THEN server ELSE "closed"
  /\ UNCHANGED << client, store, db, images, generated, nextId, env, req, gw, last,
                  issued, uploaded >>

\* a closeDB that closes the client and keeps the handle
closeDBResumeKeepingHandle(ok) ==
  /\ server = "listening" /\ proc.gracefulShutdown = "closing"
  /\ IF ok THEN
       /\ db' = db /\ client' = Null
       /\ proc' = [ proc EXCEPT !.gracefulShutdown = "done" ]
       /\ server' = "closed"
     ELSE
       /\ proc' = [ proc EXCEPT !.gracefulShutdown = "failed" ]
       /\ server' = "exited"
       /\ UNCHANGED << db, client >>
  /\ UNCHANGED << store, images, generated, nextId, env, req, gw, last, issued, uploaded >>

\* the rest of closeDB after await client.close(): db = null, client = null,
\* and then server.close() in gracefulShutdown; or process.exit(1) when
\* client.close() throws
closeDBResume(ok) ==
  /\ server = "listening" /\ proc.gracefulShutdown = "closing"
  /\ IF ok THEN
       /\ db' = Null /\ client' = Null
       /\ proc' = [ proc EXCEPT !.gracefulShutdown = "done" ]
       /\ server' = "closed"
     ELSE
       /\ proc' = [ proc EXCEPT !.gracefulShutdown = "failed" ]
       /\ server' = "exited"
       /\ UNCHANGED << db, client >>
  /\ UNCHANGED << store, images, generated, nextId, env, req, gw, last, issued, uploaded >>

\* the callback of server.close(): process.exit(0) once the connections of
\* the requests in flight have ended
serverClosed ==
  /\ server = "closed"
  /\ \A r \in Reqs : req[r].pc = "idle"
  /\ server' = "exited"
  /\ UNCHANGED << client, proc, store, db, images, generated, nextId, env, req, gw, last,
                  issued, uploaded >>

\* ------------------------------------- a direct call of a store helper
Collections == { "images", "generated_images" }

Collection(name) == IF name = "images" THEN images ELSE generated

\* the outcome of a helper, as its caller sees it
Outcome(fn, name, result) ==
  [ fn |-> fn, collection |-> name, thrown |-> result.thrown, message |-> result.message,
    count |-> result.count, driverCalls |-> result.driverCalls, n |-> store.n + 1 ]

\* what the call leaves in the two collections
Stored(name, result) ==
  /\ images' = IF name = "images" /\ ~result.thrown THEN result.value ELSE images
  /\ generated' = IF name = "generated_images" /\ ~result.thrown THEN result.value
                   ELSE generated

callWriteDB(name, data, fault) ==
  /\ server # "exited" /\ store.n < MaxOps
  /\ LET result == writeDB(db, fault, Collection(name), data)
     IN  store' = Outcome("writeDB", name, result) /\ Stored(name, result)
  /\ nextId' = nextId + 1
  /\ UNCHANGED << client, server, proc, db, env, req, gw, last, issued, uploaded >>

callReadDB(name, query, fault) ==
  /\ server # "exited" /\ store.n < MaxOps
  /\ LET result == readDB(db, fault, Collection(name), query)
     IN  store' = Outcome("readDB", name, result)
  /\ UNCHANGED << client, server, proc, db, images, generated, nextId, env, req, gw, last,
                  issued, uploaded >>

callUpdateDB(name, query, updateData, fault) ==
  /\ server # "exited" /\ store.n < MaxOps
  /\ LET result == updateDB(db, fault, Collection(name), query, updateData)
     IN  store' = Outcome("updateDB", name, result) /\ Stored(name, result)
  /\ UNCHANGED << client, server, proc, db, nextId, env, req, gw, last, issued, uploaded >>

callDeleteDB(name, query, fault) ==
  /\ server # "exited" /\ store.n < MaxOps
  /\ LET result == deleteDB(db, fault, Collection(name), query)
     IN  store' = Outcome("deleteDB", name, result) /\ Stored(name, result)
  /\ UNCHANGED << client, server, proc, db, nextId, env, req, gw, last, issued, uploaded >>

\* ------------------------------------------------------- specifications
\* the handle after startup: the Db object of the second assignment, of the
\* client created second
Connected == Db(Client(2), 2)

Started ==
  [ IdleProc EXCEPT !.import = "done", !.startServer = "done", !.created = 2,
                    !.assigned = 2 ]

\* the server after startServer: connected, both collections empty
Init ==
  /\ db = Connected
  /\ client = Client(2)
  /\ server = "listening"
  /\ proc = Started
  /\ store = IdleStore
  /\ images = <<>>
  /\ generated = <<>>
  /\ nextId = 1
  /\ env \in { [ key |-> k ] : k \in BOOLEAN }
  /\ req = [ r \in Reqs |-> IdleReq ]
  /\ last = IdleReq
  /\ issued = 0
  /\ uploaded = <<>>
  /\ gw = IdleGateway

Next ==
  \E r \in Reqs :
    \/ \E body \in UploadBodies, fault \in BOOLEAN :
         \E fsFault \in IF body.file.present THEN BOOLEAN ELSE { FALSE } :
           uploadImage(r, body, fsFault, fault)
    \/ \E id \in Ids, fault \in BOOLEAN : getImageById(r, id, fault)
    \/ \E id \in Ids, fault \in BOOLEAN : deleteImage(r, id, fault)
    \/ \E fault \in BOOLEAN : getAllImages(r, fault)
    \/ \E promptId \in { "p1", "p2" }, fault \in BOOLEAN : getImagesByPromptId(r, promptId, fault)
    \/ \E body \in GenerateBodies, fault \in BOOLEAN : generateImage(r, body, fault)
    \/ \E fault \in BOOLEAN : generateImageLookup(r, fault)
    \/ \E fault \in BOOLEAN : generateImageScan(r, fault)
    \/ \E prov \in Providers : generateImageGateway(r, prov)
    \/ \E fault \in BOOLEAN : generateImageSave(r, fault)
    \/ \E body \in TextBodies, prov \in Providers : generateImageFromText(r, body, prov)
    \/ \E fault \in BOOLEAN : generateImageFromTextSave(r, fault)
    \/ \E prov \in Probes : testConnection(r, prov)
    \/ \E fault \in BOOLEAN : getPrompts(r, fault)
    \/ \E fault \in BOOLEAN : getGeneratedImages(r, fault)
    \/ \E fault \in BOOLEAN, prov \in Probes : debugFlow(r, fault, prov)

Spec == Init /\ [][Next]_vars

\* the gateway called directly, for every provider behaviour
InitGateway ==
  /\ db = Connected
  /\ client = Client(2)
  /\ server = "listening"
  /\ proc = Started
  /\ store = IdleStore
  /\ images = <<>>
  /\ generated = <<>>
  /\ nextId = 1
  /\ env \in { [ key |-> k ] : k \in BOOLEAN }
  /\ req = [ r \in Reqs |-> IdleReq ]
  /\ last = IdleReq
  /\ issued = 0
  /\ uploaded = <<>>
  /\ gw \in { [ IdleGateway EXCEPT !.pc = "ready", !.fn = fn, !.prov = prov ] :
                fn \in { "generateImage", "generateImageFromText" },
                prov \in GatewayProviders } \cup
             { [ IdleGateway EXCEPT !.pc = "ready", !.fn = "getBestAvailableModel",
                                    !.task = task,
                                    !.prov = Provider(accepts, <<>>, TRUE, TRUE, <<>>) ] :
                task \in Tasks, accepts \in SUBSET ModelNames }
  /\ env.key \/ gw.prov.message \in SeqsUpTo(Sigma, 1)

NextGateway ==
  gatewayGenerateImage \/ gatewayGenerateImageFromText \/ gatewayGetBestAvailableModel

SpecGateway == InitGateway /\ [][NextGateway]_vars

\* getPrompts over every content of the images collection
InitPrompts ==
  /\ db = Connected
  /\ client = Client(2)
  /\ server = "listening"
  /\ proc = Started
  /\ store = IdleStore
  /\ \E n \in 0..MaxScan : images \in StoredImages(n)
  /\ generated = <<>>
  /\ nextId = Len(images) + 1
  /\ env = [ key |-> TRUE ]
  /\ req = [ r \in Reqs |-> IdleReq ]
  /\ last = IdleReq
  /\ issued = 0
  /\ uploaded = <<>>
  /\ gw = IdleGateway

NextPrompts == \E fault \in BOOLEAN : getPrompts(1, fault)

SpecPrompts == InitPrompts /\ [][NextPrompts]_vars

\* the process from its start: the two calls of connectDB, the shutdown, and
\* the store helpers called at any moment of it
NewDoc(name, body) ==
  IF name = "images" THEN UploadDoc(nextId, body)
  ELSE TextDoc(nextId, body.prompt, body.aiImage)

Queries == { All, By("promptId", "p1") } \cup { By("_id", id) : id \in 1..MaxOps }

Renamed == [ field |-> "promptName", value |-> "Renamed" ]

InitLife ==
  /\ db = Null
  /\ client = Null
  /\ server = "none"
  /\ proc = IdleProc
  /\ store = IdleStore
  /\ images = <<>>
  /\ generated = <<>>
  /\ nextId = 1
  /\ env = [ key |-> TRUE ]
  /\ req = [ r \in Reqs |-> IdleReq ]
  /\ last = IdleReq
  /\ issued = 0
  /\ uploaded = <<>>
  /\ gw = IdleGateway

NextLife ==
  \/ importConnectDB
  \/ startServer
  \/ \E caller \in { "import", "startServer" }, ok \in BOOLEAN : connectDBResume(caller, ok)
  \/ \E signal \in Signals : gracefulShutdown(signal)
  \/ \E ok \in BOOLEAN : closeDBResume(ok)
  \/ serverClosed
  \/ \E name \in Collections, fault \in BOOLEAN :
       \/ \E body \in ValidUploads : callWriteDB(name, NewDoc(name, body), fault)
       \/ \E query \in Queries : callReadDB(name, query, fault)
       \/ \E query \in Queries : callUpdateDB(name, query, Renamed, fault)
       \/ \E query \in Queries : callDeleteDB(name, query, fault)

SpecLife == InitLife /\ [][NextLife]_vars

\* the process from its start to its exit, serving requests in between
NextServe ==
  \/ importConnectDB
  \/ startServer
  \/ \E caller \in { "import", "startServer" }, ok \in BOOLEAN : connectDBResume(caller, ok)
  \/ \E signal \in Signals : gracefulShutdown(signal)
  \/ \E ok \in BOOLEAN : closeDBResume(ok)
  \/ serverClosed
  \/ \E r \in Reqs :
       \/ uploadImage(r, UploadBody("p1", "Sunset", Sunset, ImgX, NoFile), FALSE, FALSE)
       \/ \E promptId \in { "p1", Undefined } :
            generateImage(r, GenerateBody(TRUE, promptId, Undefined, ImgY, <<>>), FALSE)
       \/ \E fault \in BOOLEAN : generateImageLookup(r, fault)
       \/ generateImageScan(r, FALSE)
       \/ \E prov \in Probes : generateImageGateway(r, prov)
       \/ \E fault \in BOOLEAN : generateImageSave(r, fault)
       \/ \E prov \in Probes :
            generateImageFromText(r, [ EmptyBody EXCEPT !.prompt = "a red fox" ], prov)
       \/ generateImageFromTextSave(r, FALSE)

SpecServe == InitLife /\ [][NextServe]_vars

\* ------------------------------------------------------------ properties
NoRecordFor(promptId) == \A i \in 1..Len(images) : images[i].promptId # promptId

NoRecordWithId(id) == \A i \in 1..Len(images) : images[i]._id # id

\* request r takes a step
Steps(r) == req'[r] # req[r]

AtLookup(r) == req[r].h = "generateImage" /\ req[r].pc = "lookup"
AtScan(r) == req[r].h = "generateImage" /\ req[r].pc = "scan"

\* C1 (as stated): a generateImage whose lookup found no record for the
\* promptId answers 404, calls the gateway never and inserts nothing.
C1_AlwaysNotFound ==
  [][ \A r \in Reqs :
        (AtScan(r) /\ Steps(r)) =>
          /\ last'.resp.status = 404
          /\ last'.calls.gateway = 0
          /\ generated' = generated ]_vars

\* C1 (amended): when the lookup finds no record for the promptId,
\* generateImage goes on to the diagnostic scan without a gateway call;
\* it then answers 404, or 500 when the scan fails in the store; no step
\* of it calls the gateway or changes generated_images.
C1_NotFoundUnlessScanFails ==
  [][ \A r \in Reqs :
        /\ (AtLookup(r) /\ Steps(r) /\ NoRecordFor(ParsedPromptId(req[r].body))) =>
             /\ generated' = generated
             /\ \/ req'[r].pc = "scan" /\ req'[r].calls.gateway = 0
                \/ /\ req'[r].pc = "idle"
                   /\ last'.h = "generateImage" /\ last'.resp.status = 500
                   /\ last'.caught = "store" /\ last'.calls.gateway = 0
        /\ (AtScan(r) /\ Steps(r)) =>
             /\ generated' = generated
             /\ req'[r].pc = "idle"
             /\ last'.h = "generateImage" /\ ~last'.resp.success
             /\ last'.calls.gateway = 0 /\ last'.calls.provider = 0
             /\ last'.calls.inserts = 0
             /\ \/ last'.resp.status = 404 /\ last'.caught = "none"
                \/ last'.resp.status = 500 /\ last'.caught = "store" ]_vars

\* a 404 of generateImage while images holds records of another promptId
C1_Witness ==
  /\ last.h = "generateImage" /\ last.resp.status = 404
  /\ images # <<>> /\ NoRecordFor(ParsedPromptId(last.body))

\* C2: a generateImage answered with success has inserted exactly one
\* document, found under the returned id, whose promptName and prompt are
\* those of the first record of the lookup, and that record is the one
\* inserted first among the records the lookup returned.
C2_FirstRecordWins ==
  (last.h = "generateImage" /\ last.resp.success) =>
    LET docs == Find(generated, By("_id", last.resp.data.imageId))
        found == last.existingImages
    IN  /\ Len(docs) = 1 /\ last.calls.inserts = 1
        /\ found # <<>>
        /\ docs[1].promptName = found[1].promptName
        /\ docs[1].prompt = found[1].prompt
        /\ docs[1].promptId = ParsedPromptId(last.body)
        /\ \A i \in 1..Len(found) :
             /\ found[i].promptId = ParsedPromptId(last.body)
             /\ found[1]._id <= found[i]._id

\* a success whose lookup returned two records with different names
C2_Witness ==
  /\ last.h = "generateImage" /\ last.resp.success
  /\ Len(last.existingImages) >= 2
  /\ last.existingImages[1].promptName # last.existingImages[2].promptName

\* C3: every document of generated_images with promptId null is named
\* "Text Prompt", and the document of a successful generateImageFromText
\* has promptId null, that name, and the prompt of the request.
C3_TextPromptName ==
  /\ \A i \in 1..Len(generated) :
       generated[i].promptId = Null => generated[i].promptName = "Text Prompt"
  /\ (last.h = "generateImageFromText" /\ last.resp.success) =>
       LET docs == Find(generated, By("_id", last.resp.data.imageId))
       IN  /\ Len(docs) = 1
           /\ docs[1].promptId = Null
           /\ docs[1].promptName = "Text Prompt"
           /\ docs[1].prompt = last.body.prompt

\* a text generation stored next to an artifact of generateImage
C3_Witness ==
  /\ last.h = "generateImageFromText" /\ last.resp.success
  /\ \E i \in 1..Len(generated) : generated[i].promptId # Null

FirstIndex(promptId) ==
  CHOOSE i \in 1..Len(images) :
    images[i].promptId = promptId /\ \A j \in 1..(i - 1) : images[j].promptId # promptId

\* C4: getPrompts returns one entry per distinct promptId of images, in
\* the order of first occurrence, each with the promptName and prompt of
\* the first record of that promptId.
C4_OnePerPromptId ==
  (last.h = "getPrompts" /\ last.resp.success) =>
    LET data == last.resp.data IN
    /\ { data[i].id : i \in 1..Len(data) } = { images[i].promptId : i \in 1..Len(images) }
    /\ \A i, j \in 1..Len(data) :
         i < j => /\ data[i].id # data[j].id
                  /\ FirstIndex(data[i].id) < FirstIndex(data[j].id)
    /\ \A i \in 1..Len(data) :
         /\ data[i].promptName = images[FirstIndex(data[i].id)].promptName
         /\ data[i].prompt = images[FirstIndex(data[i].id)].prompt

\* three records over two promptIds, the repeated one under two names
C4_Witness ==
  /\ last.h = "getPrompts" /\ last.resp.success
  /\ Len(images) = 3 /\ Len(last.resp.data) = 2
  /\ images[1].promptId = images[3].promptId
  /\ images[1].promptName # images[3].promptName

\* the message of the error the gateway call has caught from the provider
ProviderFailure == gw.prov.accepts = {} \/ ~gw.prov.ok
ProviderMessage == IF gw.prov.accepts = {} THEN gw.prov.constructMessage ELSE gw.prov.message

\* C5: a provider failure whose message contains "429" or "quota" is
\* returned by the gateway as QUOTA_EXCEEDED, whatever else it contains.
C5_QuotaExceeded ==
  ( /\ gw.pc = "returned" /\ env.key /\ ProviderFailure
    /\ (Includes(ProviderMessage, P429) \/ Includes(ProviderMessage, PQuota)) ) =>
    /\ ~gw.result.success
    /\ gw.result.errorType = "QUOTA_EXCEEDED"

\* a quota message that also names a 404
C5_Witness ==
  /\ gw.pc = "returned" /\ env.key /\ ProviderFailure
  /\ Includes(ProviderMessage, PQuota) /\ Includes(ProviderMessage, P404)
  /\ gw.result.errorType = "QUOTA_EXCEEDED"

\* C6: getImageById with the id an upload of base64 data returned, the
\* record not deleted since and the read not failing in the store, answers
\* 200 with exactly the uploaded image data, promptId, promptName and prompt.
C6_RoundTrip ==
  \A k \in 1..Len(uploaded) :
    ( /\ last.h = "getImageById" /\ last.body.id = uploaded[k].id
      /\ last.caught = "none"
      /\ ~uploaded[k].deleted /\ ~uploaded[k].body.file.present ) =>
      /\ last.resp.status = 200
      /\ last.resp.data.id = uploaded[k].id
      /\ last.resp.data.base64Image = uploaded[k].body.aiImage
      /\ last.resp.data.promptId = uploaded[k].body.promptId
      /\ last.resp.data.promptName = uploaded[k].body.promptName
      /\ last.resp.data.prompt = uploaded[k].body.prompt

\* the first of two uploads with different image data is fetched
C6_Witness ==
  /\ last.h = "getImageById" /\ last.resp.status = 200
  /\ Len(uploaded) = 2
  /\ last.body.id = uploaded[1].id
  /\ ~uploaded[1].body.file.present /\ ~uploaded[2].body.file.present
  /\ uploaded[1].body.aiImage # uploaded[2].body.aiImage
  /\ last.resp.data.base64Image = ImgX

\* promptId absent from the body (both spellings, for form data)
AbsentPromptId(body) == Falsy(body.promptId) /\ (body.json \/ Falsy(body.promptid))

\* no referenceImage field and no uploaded file
AbsentReferenceImage(body) == body.referenceImage = NoImage /\ (body.json \/ body.files = <<>>)

FailsValidation(rec) ==
  \/ rec.h = "generateImage" /\ (AbsentPromptId(rec.body) \/ AbsentReferenceImage(rec.body))
  \/ rec.h = "generateImageFromText" /\ rec.body.prompt \in { Undefined, "" }

\* C7: generateImage without promptId or referenceImage, and
\* generateImageFromText without prompt or with the empty prompt, answer
\* 400 having made no store lookup, no gateway call and no insert, and the
\* step that answers leaves both collections as they are.
C7_ValidationFirst ==
  [][ FailsValidation(last') =>
        /\ last'.resp.status = 400 /\ ~last'.resp.success
        /\ last'.calls = ZeroCalls
        /\ last' # last => /\ generated' = generated
                           /\ images' = images
                           /\ req' = req ]_vars

\* a generateImage without referenceImage for a promptId that has a record
C7_Witness ==
  /\ last.h = "generateImage" /\ last.resp.status = 400
  /\ AbsentReferenceImage(last.body) /\ ~AbsentPromptId(last.body)
  /\ ~NoRecordFor(ParsedPromptId(last.body))

\* the error codes the handlers and app.js use
ErrorCodes ==
  { "VALIDATION_ERROR", "NO_IMAGE_ERROR", "DATABASE_SAVE_ERROR", "FILE_SIZE_ERROR",
    "INVALID_FILE_TYPE", "UPLOAD_ERROR", "RETRIEVE_ERROR", "NOT_FOUND",
    "MISSING_PARAMETER", "DELETE_ERROR", "INTERNAL_ERROR" }

\* C8: every failure response has success = false, a message, and an
\* error field that holds a code, different from the message.
C8_ErrorCode ==
  (last.pc = "done" /\ ~last.resp.success) =>
    /\ last.resp.message # <<>>
    /\ last.resp.hasError
    /\ Len(last.resp.error) = 1 /\ last.resp.error[1] \in ErrorCodes
    /\ last.resp.error # last.resp.message

\* the kinds of failure of the request answered by a step
Invalid(rec) ==
  \/ /\ rec.h = "uploadImage"
     /\ \/ Falsy(rec.body.promptId) \/ Falsy(rec.body.promptName) \/ Falsy(rec.body.prompt)
        \/ ~rec.body.file.present /\ rec.body.aiImage = NoImage
  \/ /\ rec.h = "generateImage"
     /\ (Falsy(ParsedPromptId(rec.body)) \/ ParsedReferenceImage(rec.body) = NoImage)
  \/ rec.h = "generateImageFromText" /\ Falsy(rec.body.prompt)
  \/ rec.h = "getImagesByPromptId" /\ Falsy(rec.body.promptId)

StoreFailed(rec) == rec.caught \in { "store", "fs" }

GatewayFailed(rec) ==
  /\ rec.h \in { "generateImage", "generateImageFromText", "testConnection" }
  /\ rec.calls.gateway >= 1
  /\ ~rec.imageResult.success

\* the id or promptId of the request resolves to no record (images is the
\* collection before the step)
Unresolved(rec) ==
  /\ ~Invalid(rec) /\ ~StoreFailed(rec)
  /\ \/ rec.h \in { "getImageById", "deleteImage" } /\ NoRecordWithId(rec.body.id)
     \/ rec.h = "getImagesByPromptId" /\ NoRecordFor(rec.body.promptId)
     \/ rec.h = "generateImage" /\ rec.calls.lookups = 2

\* C9: a validation failure is answered 400, an unresolvable promptId or
\* id 404, every other failure (gateway, store) 500, and no failure 2xx.
C9_StatusByKind ==
  [][ last' # last =>
        /\ Invalid(last') => last'.resp.status = 400
        /\ Unresolved(last') => last'.resp.status = 404
        /\ (~Invalid(last') /\ (StoreFailed(last') \/ GatewayFailed(last'))) =>
             last'.resp.status = 500
        /\ (Invalid(last') \/ Unresolved(last') \/ StoreFailed(last') \/ GatewayFailed(last')) =>
             last'.resp.status \notin 200..299 ]_vars

\* a call of one of the two generation methods of the gateway has returned
GenerationReturned == gw.pc = "returned" /\ gw.fn \in { "generateImage", "generateImageFromText" }

Called == store' # store

\* C11: while the handle is null (connectDB not completed, or closeDB
\* done), writeDB, readDB, updateDB and deleteDB throw the not-connected
\* error, make no call on the driver and leave both collections as they are.
C11_NotConnected ==
  [][ (db = Null /\ Called) =>
        /\ store'.fn \in { "writeDB", "readDB", "updateDB", "deleteDB" }
        /\ store'.thrown
        /\ store'.message = NotConnectedMessage
        /\ store'.driverCalls = 0
        /\ images' = images /\ generated' = generated ]_vars

\* a delete after closeDB, of a record written while connected
C11_Witness ==
  /\ db = Null /\ server = "closed"
  /\ store.fn = "deleteDB" /\ store.message = NotConnectedMessage
  /\ store.collection = "images" /\ images # <<>>

\* C12: at most one client is ever created, and the handle, once set, is
\* never overwritten with another handle.
C12_EstablishedOnce ==
  [][ /\ proc'.created <= 1
      /\ (db # Null /\ db' # Null) => db' = db ]_vars

\* the two generation handlers
Generates(rec) == rec.h \in { "generateImage", "generateImageFromText" }

\* the gateway call of the request failed
GenerationFailed(rec) ==
  Generates(rec) /\ rec.calls.gateway >= 1 /\ ~rec.imageResult.success

AtSave(r) == Generates(req[r]) /\ req[r].pc = "save"

\* C13: a generation request calls the gateway at most once and the
\* provider at most once; a request whose gateway call failed is answered
\* at that step, with a failure that carries the gateway's error text, so
\* no request goes on after a failed call.
C13_NoRetry ==
  [][ /\ \A r \in Reqs :
           /\ req'[r].calls.gateway <= 1 /\ req'[r].calls.provider <= 1
           /\ ~GenerationFailed(req'[r])
      /\ (last' # last /\ Generates(last')) =>
           /\ last'.calls.gateway <= 1 /\ last'.calls.provider <= 1
           /\ GenerationFailed(last') =>
                /\ ~last'.resp.success
                /\ last'.resp.hasError
                /\ last'.resp.error = last'.imageResult.error ]_vars

\* a generateImage ended by a MODEL_NOT_FOUND of the provider, after one call
C13_Witness ==
  /\ last.h = "generateImage" /\ GenerationFailed(last)
  /\ last.imageResult.errorType = "MODEL_NOT_FOUND"
  /\ last.calls.provider = 1 /\ ~last.resp.success

\* C14: the step that runs the insert of a generation request answers the
\* request; when the insert fails the answer is a 500 failure, no
\* document has been added to generated_images (none has the id the request
\* drew), and the request makes no further step; a success is answered
\* only together with the insert of one document.
C14_LostArtifact ==
  [][ \A r \in Reqs :
        (AtSave(r) /\ Steps(r)) =>
          /\ req'[r].pc = "idle"
          /\ last'.h = req[r].h /\ last'.imageResult.success
          /\ last'.caught = "store" =>
               /\ last'.resp.status = 500 /\ ~last'.resp.success
               /\ last'.calls.inserts = 0
               /\ generated' = generated
               /\ \A i \in 1..Len(generated') : generated'[i]._id # nextId
          /\ last'.resp.success =>
               /\ last'.caught = "none"
               /\ Len(generated') = Len(generated) + 1 ]_vars

\* a text generation lost by the failure of its insert
C14_Witness ==
  /\ last.h = "generateImageFromText" /\ last.caught = "store"
  /\ last.imageResult.success /\ last.calls.gateway = 1
  /\ last.resp.status = 500 /\ generated = <<>>

\* C15: every document of generated_images, and every record of images,
\* has a prompt that is neither absent nor the empty text.
C15_PromptNonEmpty ==
  /\ \A i \in 1..Len(generated) : generated[i].prompt \notin { Undefined, Null, "" }
  /\ \A i \in 1..Len(images) : images[i].prompt \notin { Undefined, Null, "" }

\* an artifact of generateImage whose prompt record has been deleted
C15_Witness ==
  /\ generated # <<>> /\ images = <<>>
  /\ generated[1].promptId # Null /\ generated[1].prompt = Sunset
  /\ last.h = "deleteImage" /\ last.resp.success

\* C16: the ids of generated_images are pairwise distinct and all drawn
\* before the next fresh id; a successful generation appends exactly one
\* document, with the id it returns, and keeps every earlier document; and
\* nothing else changes generated_images.
C16_DistinctArtifacts ==
  [][ /\ \A i, j \in 1..Len(generated') :
           i # j => generated'[i]._id # generated'[j]._id
      /\ \A i \in 1..Len(generated') : generated'[i]._id < nextId'
      /\ nextId' >= nextId
      /\ \A r \in Reqs :
           (AtSave(r) /\ Steps(r) /\ last'.resp.success) =>
             /\ Len(generated') = Len(generated) + 1
             /\ SubSeq(generated', 1, Len(generated)) = generated
             /\ generated'[Len(generated')]._id = last'.resp.data.imageId
      /\ generated' # generated =>
           \E r \in Reqs : AtSave(r) /\ Steps(r) /\ last'.resp.success ]_vars

\* two generateImage requests for one promptId overlapped: the second one
\* received is about to insert, the first one has inserted and answered
C16_Witness ==
  /\ req[1].pc = "idle" /\ req[2].h = "generateImage" /\ req[2].pc = "save"
  /\ last.h = "generateImage" /\ last.resp.success
  /\ ParsedPromptId(last.body) = ParsedPromptId(req[2].body)
  /\ last.existingImages = req[2].existingImages
  /\ Len(generated) = 1 /\ issued = 3 /\ Len(uploaded) = 1

\* the text appears in the response's error or message
Carries(resp, text) == Includes(resp.error, text) \/ Includes(resp.message, text)

\* C17: the failure response of a generation request whose gateway call
\* failed carries the failure's kind and the gateway's error text.
C17_KindAndMessage ==
  GenerationFailed(last) =>
    /\ ~last.resp.success
    /\ last.resp.error = last.imageResult.error
    /\ Carries(last.resp, << last.imageResult.errorType >>)

\* C18: the step in which the gateway call of a generation request fails
\* answers 500 "Image generation failed" and leaves images and
\* generated_images as they are, the request having inserted nothing.
C18_GenerationFailure ==
  [][ (last' # last /\ GenerationFailed(last')) =>
        /\ last'.resp.status = 500
        /\ last'.resp.message = << "Image generation failed" >>
        /\ last'.calls.inserts = 0
        /\ images' = images /\ generated' = generated ]_vars

\* a generateImage with a record for its promptId, failed by the provider
\* while generated_images holds an artifact
C18_Witness ==
  /\ last.h = "generateImage" /\ GenerationFailed(last)
  /\ last.resp.status = 500 /\ last.existingImages # <<>>
  /\ generated # <<>>

\* the list getBestAvailableModel is to walk for the task
ExpectedList(task) == IF task = "image" THEN ModelPriority("image") ELSE ModelPriority("text")

IsPrefix(s, t) == Len(s) <= Len(t) /\ SubSeq(t, 1, Len(s)) = s

\* C20: a step keeps every document of generated_images and may append to
\* it; it keeps every record of images and may append to it, or, when it
\* is a successful deleteImage, removes exactly the one record with the id
\* of the request and keeps the others.
C20_Immutable ==
  [][ /\ IsPrefix(generated, generated')
      /\ \/ IsPrefix(images, images')
         \/ /\ last'.h = "deleteImage" /\ last'.resp.status = 200
            /\ \E i \in 1..Len(images) :
                 images[i]._id = last'.body.id /\ images' = Remove(images, i) ]_vars

\* the first of two records deleted, the second one left as it was
C20_Witness ==
  /\ last.h = "deleteImage" /\ last.resp.status = 200
  /\ Len(uploaded) = 2 /\ uploaded[1].deleted /\ ~uploaded[2].deleted
  /\ Len(images) = 1 /\ images[1] = UploadDoc(uploaded[2].id, uploaded[2].body)

\* C21: testConnection answers 200 with success = true exactly when the
\* probe of the gateway succeeded, and 500 'Gemini API connection failed'
\* when the probe reports a failure.
C21_ReportsProbe ==
  (last.h = "testConnection" /\ last.pc = "done") =>
    /\ last.imageResult.success =>
         last.resp.status = 200 /\ last.resp.success
    /\ ~last.imageResult.success =>
         /\ last.resp.status = 500 /\ ~last.resp.success
         /\ last.resp.message = << "Gemini API connection failed" >>

\* the kind the first matching pattern gives
ExpectedKind(message) ==
  IF Includes(message, P429) \/ Includes(message, PQuota) THEN "QUOTA_EXCEEDED"
  ELSE IF Includes(message, P404) \/ Includes(message, PNotFound) THEN "MODEL_NOT_FOUND"
  ELSE "UNKNOWN_ERROR"

\* C22: generateImage and generateImageFromText of the gateway always
\* return a result; for a provider failure it is a failure of the one kind
\* the first matching pattern of the message gives, its text contains the
\* provider's message, and it has a suggestion exactly when the kind is
\* QUOTA_EXCEEDED or MODEL_NOT_FOUND.
C22_TotalClassification ==
  GenerationReturned =>
    /\ ~gw.raised
    /\ gw.result.success \/
         gw.result.errorType \in { "QUOTA_EXCEEDED", "MODEL_NOT_FOUND", "UNKNOWN_ERROR" }
    /\ (env.key /\ ~ProviderFailure) => gw.result.success
    /\ (env.key /\ ProviderFailure) =>
         /\ ~gw.result.success
         /\ gw.result.errorType = ExpectedKind(ProviderMessage)
         /\ Includes(gw.result.error, ProviderMessage)
         /\ Len(gw.result.error) > Len(ProviderMessage)
         /\ gw.result.suggestion # Undefined <=>
              gw.result.errorType \in { "QUOTA_EXCEEDED", "MODEL_NOT_FOUND" }
         /\ gw.result.errorType = "QUOTA_EXCEEDED" => gw.result.suggestion = QuotaSuggestion
         /\ gw.result.errorType = "MODEL_NOT_FOUND" => gw.result.suggestion = ModelSuggestion

\* a message with the digits of both codes, none of them whole
C22_Witness ==
  /\ GenerationReturned /\ env.key /\ ProviderFailure
  /\ ProviderMessage = << "4", "2", "0", "4" >>
  /\ gw.result.errorType = "UNKNOWN_ERROR" /\ gw.result.suggestion = Undefined

\* the step receives a request of handler h and answers it at once
Answers(h) == issued' = issued + 1 /\ req' = req /\ last'.h = h

\* C23: deleteImage leaves generated_images as it is; when the store does
\* not fail it answers 404 NOT_FOUND and leaves images as it is if no
\* record has the id, and otherwise answers 200 and removes that one record,
\* keeping every other record in place; a later getImageById of a deleted
\* id answers 404.
C23_DeleteOne ==
  [][ /\ Answers("deleteImage") =>
           /\ generated' = generated
           /\ last'.caught = "none" =>
                IF NoRecordWithId(last'.body.id)
                THEN /\ last'.resp.status = 404
                     /\ last'.resp.error = << "NOT_FOUND" >>
                     /\ images' = images
                ELSE /\ last'.resp.status = 200 /\ last'.resp.success
                     /\ Len(images') = Len(images) - 1
                     /\ \A j \in 1..Len(images') : images'[j]._id # last'.body.id
                     /\ \E i \in 1..Len(images) :
                          /\ images[i]._id = last'.body.id
                          /\ \A j \in 1..(i - 1) : images'[j] = images[j]
                          /\ \A j \in i..Len(images') : images'[j] = images[j + 1]
      /\ ( /\ Answers("getImageById") /\ last'.caught = "none"
           /\ \E k \in 1..Len(uploaded) :
                uploaded[k].id = last'.body.id /\ uploaded[k].deleted )
         => /\ last'.resp.status = 404
            /\ last'.resp.error = << "NOT_FOUND" >> ]_vars

\* a record uploaded, deleted and then asked for
C23_Witness ==
  /\ last.h = "getImageById" /\ last.resp.status = 404 /\ last.caught = "none"
  /\ Len(uploaded) = 1 /\ uploaded[1].deleted /\ uploaded[1].id = last.body.id
  /\ images = <<>>

\* C24: the lookup and the insert of generateImage are separate steps. A
\* save whose store call does not fail answers 200 and appends an artifact
\* with the promptName and prompt of the record read at the lookup, whether
\* or not images still holds a record for the promptId; a lookup that finds
\* no record for the promptId goes on to the scan, and the scan answers
\* 404, unless the store call of the step fails.
C24_LookupThenInsert ==
  [][ \A r \in Reqs :
        /\ ( req[r].h = "generateImage" /\ req[r].pc = "save" /\ Steps(r)
             /\ last'.caught = "none" )
           => /\ last'.resp.status = 200 /\ last'.resp.success
              /\ Len(generated') = Len(generated) + 1
              /\ SubSeq(generated', 1, Len(generated)) = generated
              /\ LET doc == generated'[Len(generated')]
                 IN  /\ doc.promptId = ParsedPromptId(req[r].body)
                     /\ doc.promptName = req[r].existingImages[1].promptName
                     /\ doc.prompt = req[r].existingImages[1].prompt
                     /\ last'.resp.data.promptName = doc.promptName
        /\ ( AtLookup(r) /\ Steps(r) /\ NoRecordFor(ParsedPromptId(req[r].body)) )
           => \/ req'[r].pc = "scan" /\ generated' = generated
              \/ /\ req'[r] = IdleReq /\ generated' = generated
                 /\ last'.caught = "store" /\ last'.resp.status = 500
        /\ ( AtScan(r) /\ Steps(r) )
           => /\ generated' = generated
              /\ \/ last'.caught = "none" /\ last'.resp.status = 404
                 \/ last'.caught = "store" /\ last'.resp.status = 500 ]_vars

\* a record deleted between the lookup and the insert of a generation that
\* succeeds: the artifact names a promptId that images no longer holds
C24_Witness ==
  /\ last.h = "generateImage" /\ last.resp.status = 200
  /\ Len(uploaded) = 1 /\ uploaded[1].deleted /\ images = <<>>
  /\ Len(generated) = 1
  /\ generated[1].promptId = ParsedPromptId(last.body)
  /\ generated[1].promptName = uploaded[1].body.promptName
  /\ NoRecordFor(generated[1].promptId)

\* request r runs a call of the store in this step
StoreStep(r) == (AtLookup(r) \/ AtScan(r) \/ AtSave(r)) /\ Steps(r)

\* C25: the server starts listening only when connectDB of startServer has
\* completed and the handle is set, and a failed connection ends the process
\* before any request is received; the server is closed only in the step
\* in which closeDB has cleared the handle and the client, and from then on
\* the handle stays cleared; a call of the store made while the handle is
\* cleared ends its request with 500 and the not-connected error and
\* changes neither collection.
C25_Ordering ==
  [][ /\ ( server' = "listening" /\ server # "listening" )
           => /\ server = "none" /\ issued = 0
              /\ proc.startServer = "connecting" /\ proc'.startServer = "done"
              /\ db' # Null /\ client' # Null
      /\ server = "listening" => db # Null
      /\ proc'.startServer = "failed" => server' = "exited" /\ issued' = 0
      /\ server = "exited" => server' = "exited"
      /\ ( server' = "closed" /\ server # "closed" )
           => /\ server = "listening"
              /\ proc.gracefulShutdown = "closing" /\ proc'.gracefulShutdown = "done"
              /\ db' = Null /\ client' = Null
      /\ server = "closed" => db = Null /\ db' = Null /\ client' = Null
      /\ db = Null =>
           /\ \A r \in Reqs : StoreStep(r) =>
                /\ req'[r] = IdleReq
                /\ last'.caught = "store" /\ last'.resp.status = 500
                /\ last'.resp.error = NotConnectedMessage
           /\ Answers("uploadImage") =>
                last'.caught = "store" /\ last'.resp.status = 500
           /\ ( Answers("generateImage") /\ last'.resp.status # 400 ) =>
                /\ last'.caught = "store" /\ last'.resp.status = 500
                /\ last'.resp.error = NotConnectedMessage
           /\ images' = images /\ generated' = generated ]_vars

\* a generation in flight at the shutdown: the gateway has answered, the
\* insert runs after closeDB and the request ends with the not-connected error
C25_Witness ==
  /\ server = "closed" /\ db = Null /\ proc.gracefulShutdown = "done"
  /\ last.h = "generateImage" /\ last.imageResult.success
  /\ last.caught = "store" /\ last.resp.status = 500
  /\ last.resp.error = NotConnectedMessage
  /\ generated = <<>>

====
